---- MODULE Spec2Model ----
(***************************************************************************)
(* LocusChats: ephemeral zone discovery and session synchronisation.       *)
(*                                                                         *)
(* One running client (the App component of src/App.tsx) together with the *)
(* broker and the peers as its environment.  The React state object        *)
(* (`state`), the ref that lags behind it until the next render commit     *)
(* (`stateRef`), the MQTT client object, the pending timeouts and the      *)
(* asynchronous completions are the variables; every handler, timer        *)
(* callback and effect is one action.  The sweep interval and the typing   *)
(* handler exist only in the revision src/unnamed/part_012 and the deep    *)
(* link only in src/unnamed/part_011; they are modelled from there.        *)
(*                                                                         *)
(* Time is Date.now() in abstract units; one unit of latitude is one       *)
(* kilometre.                                                              *)
(***************************************************************************)
EXTENDS Integers, Sequences, FiniteSets, TLC

VARIABLES
    now,            \* Date.now()
    state,          \* the React state (AppState), updaters already applied
    stateRef,       \* stateRef.current: the state of the last committed render
    userLocation,   \* the userLocation React state
    hdlLocation,    \* userLocation as captured by the closure of the MQTT message handler
    loading,        \* loading.active
    isLoading,      \* loading.active as of the last committed render (the isLoading prop)
    mqtt,           \* the MQTT client object: connected flag and subscriptions
    outbox,         \* the envelopes published by the last step, in order
    timers,         \* pending setTimeout callbacks, in scheduling order
    ackPending,     \* publish callbacks of system-leave messages not yet invoked
    pendingCreate,  \* createRoom calls suspended in `await getCurrentPosition()`
    activeMembers,  \* activeMembersRef.current
    pendingZone,    \* the deep-linked zone (part_011)
    created,        \* number of zones this client has created
    alert,          \* the text of the last alert() shown
    lastEvent,      \* the handler that ran in the last step and its input
    peerMessages,   \* state.messages of the peer that is in zone zA
    roomPassword    \* the roomPassword state of App

vars == <<now, state, stateRef, userLocation, hdlLocation, loading, isLoading, mqtt,
          outbox, timers, ackPending, pendingCreate, activeMembers, pendingZone,
          created, alert, lastEvent, peerMessages, roomPassword>>

----------------------------------------------------------------------------
(* Bounds of the model *)

MaxTime == 3
MaxTimers == 3
MaxCreated == 1
MaxMergeLen == 2
MaxAcks == 1

(* Program constants, scaled to the model's units *)

RADIUS_KM == 2
SESSION_DURATION_MS == 2
TYPING_EXPIRY_MS == 1

FINGERPRINT == "me"
DISCOVERY_TOPIC == "locuschat/v2/discovery"
DISCOVERY_REQ_TOPIC == "locuschat/v2/discovery/req"
Salt == "locus-salt"

Null == [null |-> TRUE]
Undefined == [undefined |-> TRUE]

RoomTopic(id) == "locuschat/v2/rooms/" \o id

----------------------------------------------------------------------------
(* Pure helpers *)

Abs(x) == IF x < 0 THEN 0 - x ELSE x

Max(a, b) == IF a >= b THEN a ELSE b

\* utils/location is not among the sources: the distance of two points of
\* the model's grid, in kilometres.
calculateDistance(lat1, lng1, lat2, lng2) == Abs(lat1 - lat2) + Abs(lng1 - lng2)

\* A digest that does not depend on the password.
hashPassword_SaltOnly(pwd) == [sha256 |-> Salt]

\* SHA-256 of pwd + "locus-salt", idealised as collision free: the digest
\* is determined by, and determines, the salted input.
hashPassword(pwd) == [sha256 |-> pwd \o Salt]

toUpperCase(s) ==
    CASE s = "bob" -> "BOB"
      [] s = "eve" -> "EVE"
      [] OTHER -> s

Ids(seq) == {seq[i].id : i \in 1..Len(seq)}

\* Array.prototype.sort((a, b) => a.timestamp - b.timestamp): stable, ascending.
InsertByTimestamp(sorted, m) ==
    LET k == Cardinality({i \in 1..Len(sorted) : sorted[i].timestamp <= m.timestamp})
    IN SubSeq(sorted, 1, k) \o <<m>> \o SubSeq(sorted, k + 1, Len(sorted))

RECURSIVE SortByTimestamp(_)
SortByTimestamp(seq) ==
    IF seq = <<>> THEN <<>>
    ELSE InsertByTimestamp(SortByTimestamp(SubSeq(seq, 1, Len(seq) - 1)), seq[Len(seq)])

\* Array.prototype.sort((a, b) => b.createdAt - a.createdAt): stable, descending.
InsertByCreatedAtDesc(sorted, z) ==
    LET k == Cardinality({i \in 1..Len(sorted) : sorted[i].createdAt >= z.createdAt})
    IN SubSeq(sorted, 1, k) \o <<z>> \o SubSeq(sorted, k + 1, Len(sorted))

RECURSIVE SortByCreatedAtDesc(_)
SortByCreatedAtDesc(seq) ==
    IF seq = <<>> THEN <<>>
    ELSE InsertByCreatedAtDesc(SortByCreatedAtDesc(SubSeq(seq, 1, Len(seq) - 1)), seq[Len(seq)])

\* incoming.forEach(m => { if (!existingIds.has(m.id)) newMessages.push(m); })
\* existingIds is computed once, before the loop.
RECURSIVE PushNew(_, _, _)
PushNew(newMessages, existingIds, incoming) ==
    IF incoming = <<>> THEN newMessages
    ELSE PushNew(IF Head(incoming).id \in existingIds THEN newMessages
                 ELSE Append(newMessages, Head(incoming)),
                 existingIds, Tail(incoming))

\* A merge that appends the whole payload, known ids included.
MergeHistory_NoDedup(prev, incoming) ==
    [prev EXCEPT !.messages = SortByTimestamp(prev.messages \o incoming)]

\* A merge that leaves the new messages where they were pushed.
MergeHistory_NoSort(prev, incoming) ==
    [prev EXCEPT !.messages = PushNew(prev.messages, Ids(prev.messages), incoming)]

\* A merge that takes the replayed history in place of the messages held.
MergeHistory_Replace(prev, incoming) ==
    [prev EXCEPT !.messages = SortByTimestamp(incoming)]

\* The history_res updater of handleRoomEvent.
MergeHistory(prev, incoming) ==
    [prev EXCEPT !.messages = SortByTimestamp(PushNew(prev.messages, Ids(prev.messages), incoming))]

\* An append that does not look for the id among the messages held.
AppendMessage_NoDedup(prev, msg) ==
    [prev EXCEPT !.messages = Append(prev.messages, msg)]

\* An append that drops a message older than the last one held.
AppendMessage_IfNewer(prev, msg) ==
    IF \E i \in 1..Len(prev.messages) : prev.messages[i].id = msg.id THEN prev
    ELSE IF prev.messages # <<>> /\ msg.timestamp < prev.messages[Len(prev.messages)].timestamp THEN prev
    ELSE [prev EXCEPT !.messages = Append(prev.messages, msg)]

\* The message updater of handleRoomEvent.
AppendMessage(prev, msg) ==
    IF \E i \in 1..Len(prev.messages) : prev.messages[i].id = msg.id THEN prev
    ELSE [prev EXCEPT !.messages = Append(prev.messages, msg),
                      !.typingUsers = [u \in DOMAIN prev.typingUsers \ {msg.sender} |-> prev.typingUsers[u]]]

----------------------------------------------------------------------------
(* Zones, messages and the envelopes of the environment *)

Positions == {[lat |-> 0, lng |-> 0], [lat |-> 1, lng |-> 0]}

Passwords == {"", "k", "kx"}

Counts == {1, 2}

\* A public zone of a peer: RADIUS_KM from position 0, inside it from position 1.
ZoneA(count) ==
    [id |-> "zA", name |-> "ALPHA", type |-> "public", hostId |-> "p1",
     passwordHash |-> Undefined, center |-> [lat |-> RADIUS_KM, lng |-> 0],
     createdAt |-> 0, expiresAt |-> SESSION_DURATION_MS, userCount |-> count]

\* A private zone of a peer with key "k": beyond the radius from position 0,
\* exactly RADIUS_KM from position 1.
ZoneB(count) ==
    [id |-> "zB", name |-> "BRAVO", type |-> "private", hostId |-> "p1",
     passwordHash |-> hashPassword("k"), center |-> [lat |-> RADIUS_KM + 1, lng |-> 0],
     createdAt |-> 1, expiresAt |-> 1 + SESSION_DURATION_MS, userCount |-> count]

\* The zone built from the URL parameters zoneId, n and t: it has no passwordHash.
DeepLinkedZone(zId, t, at) ==
    [id |-> zId, name |-> "UNNAMED", type |-> t, hostId |-> "remote",
     passwordHash |-> Undefined, center |-> [lat |-> 0, lng |-> 0],
     createdAt |-> at, expiresAt |-> at + SESSION_DURATION_MS, userCount |-> 1]

NewZoneId(n) == "zM" \o ToString(n)

ZoneIds == {"zA", "zB"} \cup {NewZoneId(n) : n \in 1..(MaxCreated + 1)}

IdOf(zone) == IF zone = Null THEN "" ELSE zone.id

\* The chat messages peers send in the zone with this id.
MsgsOf(zoneId) ==
    {[id |-> zoneId \o "-m1", sender |-> "EVE", timestamp |-> 2, isSystem |-> FALSE],
     [id |-> zoneId \o "-m2", sender |-> "EVE", timestamp |-> 1, isSystem |-> FALSE],
     [id |-> zoneId \o "-m3", sender |-> "DAN", timestamp |-> 3, isSystem |-> FALSE]}

SeqsUpTo(S, n) == UNION {[1..k -> S] : k \in 0..n}

\* The non-empty histories a peer of the zone may replay: the messages array
\* of a client that runs this code, which holds no id twice.
HistoryPayloads(zoneId) ==
    {h \in SeqsUpTo(MsgsOf(zoneId), MaxMergeLen) :
        h # <<>> /\ \A i, j \in 1..Len(h) : h[i].id = h[j].id => i = j}

RoomEnvelopes(zoneId) ==
    LET t == RoomTopic(zoneId) IN
    {[topic |-> t, data |-> [type |-> "message", payload |-> m]] : m \in MsgsOf(zoneId)}
    \cup {[topic |-> t, data |-> [type |-> "presence", sender |-> "p1"]]}
    \cup {[topic |-> t, data |-> [type |-> "count_sync", count |-> 2]]}
    \cup {[topic |-> t, data |-> [type |-> "history_req", sender |-> "p1"]]}
    \cup {[topic |-> t, data |-> [type |-> "history_res", target |-> who, payload |-> h]] :
            who \in {FINGERPRINT, "p1"}, h \in HistoryPayloads(zoneId)}
    \cup {[topic |-> t, data |-> [type |-> "typing", sender |-> "EVE"]]}
    \cup {[topic |-> t, data |-> [type |-> "unknown"]]}

\* What the broker may hand to this client: the descriptors of the peers'
\* zones and of the client's own zone, sync requests, and the envelopes of
\* every room.
EnvPool ==
    {[topic |-> DISCOVERY_TOPIC, data |-> z] :
        z \in {ZoneA(c) : c \in Counts} \cup {ZoneB(c) : c \in Counts}
              \cup (IF stateRef.currentZone = Null THEN {}
                    ELSE {[stateRef.currentZone EXCEPT !.userCount = c] : c \in Counts})}
    \cup {[topic |-> DISCOVERY_REQ_TOPIC, data |-> [type |-> "sync_req", sender |-> s]] :
            s \in {FINGERPRINT, "p1"}}
    \cup UNION {RoomEnvelopes(id) : id \in ZoneIds}

----------------------------------------------------------------------------
(* The state after mounting the component *)

InitialState ==
    [currentZone |-> Null, currentUser |-> Null, isHost |-> FALSE, messages |-> <<>>,
     timeLeft |-> SESSION_DURATION_MS, typingUsers |-> [u \in {} |-> 0],
     availableRooms |-> <<>>]

Mounted ==
    /\ now = 0
    /\ state = InitialState
    /\ stateRef = InitialState
    /\ userLocation = Null
    /\ hdlLocation = Null
    /\ loading = FALSE
    /\ isLoading = FALSE
    /\ mqtt = [connected |-> FALSE, subs |-> {}, inflight |-> {}]
    /\ outbox = <<>>
    /\ timers = <<>>
    /\ ackPending = 0
    /\ pendingCreate = Null
    /\ activeMembers = {FINGERPRINT}
    /\ created = 0
    /\ alert = ""
    /\ lastEvent = [op |-> "mount"]
    /\ roomPassword = ""

\* No peer holds messages.
Init ==
    /\ Mounted
    /\ pendingZone \in {Null, DeepLinkedZone("zB", "private", 0)}
    /\ peerMessages = <<>>

----------------------------------------------------------------------------
(* Handlers *)

Envelope(topic, data) == [topic |-> topic, data |-> data]

SyncReq == Envelope(DISCOVERY_REQ_TOPIC, [type |-> "sync_req", sender |-> FINGERPRINT])

HistoryReq(zoneId) == Envelope(RoomTopic(zoneId), [type |-> "history_req", sender |-> FINGERPRINT])

Presence(zoneId) == Envelope(RoomTopic(zoneId), [type |-> "presence", sender |-> FINGERPRINT])

SystemMessage(zoneId, kind, username, t) ==
    Envelope(RoomTopic(zoneId),
             [type |-> "message",
              payload |-> [id |-> "sys_" \o kind \o "_" \o ToString(t), sender |-> username,
                           timestamp |-> t, isSystem |-> TRUE, systemType |-> kind]])

\* inRange of handleDiscoveryPulse and of the sweep: no position means in range.
InRange(loc, room) ==
    IF loc # Null
    THEN calculateDistance(loc.lat, loc.lng, room.center.lat, room.center.lng) <= RADIUS_KM
    ELSE TRUE

\* The payload has the fields of a Zone that handleDiscoveryPulse reads.
IsZone(room) == {"id", "center", "createdAt", "expiresAt", "userCount"} \subseteq DOMAIN room

\* The updater of handleDiscoveryPulse throws a TypeError: it reads
\* room.center.lat of a payload without center when a location is known.
UpdaterThrows(room, loc) == ~IsZone(room) /\ loc # Null

\* handleDiscoveryPulse: `loc` is the userLocation its closure holds, `t` is Date.now().
\* A handler that lists the descriptor without removing the cached copy.
\* An updater that takes the current zone from the descriptor.
handleDiscoveryPulse_Adopt(prev, room, loc, t) ==
    IF ~IsZone(room) \/ room.expiresAt <= t THEN prev
    ELSE [prev EXCEPT !.availableRooms =
                        Append(SelectSeq(prev.availableRooms, LAMBDA r : r.id # room.id), room),
                      !.currentZone =
                        IF prev.currentZone # Null /\ prev.currentZone.id = room.id THEN room
                        ELSE prev.currentZone]

handleDiscoveryPulse_NoReplace(prev, room, loc, t) ==
    IF ~IsZone(room) \/ room.expiresAt <= t THEN prev
    ELSE [prev EXCEPT !.availableRooms =
            IF InRange(loc, room) THEN SortByCreatedAtDesc(Append(prev.availableRooms, room))
            ELSE prev.availableRooms]

\* Every payload has an id.  For one without the other fields of a Zone,
\* `undefined <= now` is false, so the updater runs on it: it throws when a
\* location is known and lists the payload otherwise.  The comparator of the
\* sort yields NaN against a payload without createdAt, which leaves the
\* payload where it was appended.
handleDiscoveryPulse(prev, room, loc, t) ==
    IF ~IsZone(room) THEN
        IF UpdaterThrows(room, loc) THEN prev
        ELSE [prev EXCEPT !.availableRooms =
                Append(SelectSeq(prev.availableRooms, LAMBDA r : r.id # room.id), room)]
    ELSE IF room.expiresAt <= t THEN prev
    ELSE
        LET others == SelectSeq(prev.availableRooms, LAMBDA r : r.id # room.id)
            updatedRooms == IF ~InRange(loc, room) THEN others
                            ELSE IF \A i \in 1..Len(others) : IsZone(others[i])
                                 THEN SortByCreatedAtDesc(Append(others, room))
                                 ELSE Append(others, room)
            isCurrentZone == prev.currentZone # Null /\ prev.currentZone.id = room.id
            own == IF prev.currentZone # Null /\ prev.currentZone.userCount # 0
                   THEN prev.currentZone.userCount ELSE 1
        IN [prev EXCEPT !.availableRooms = updatedRooms,
                        !.currentZone = IF isCurrentZone
                                        THEN [prev.currentZone EXCEPT !.userCount = Max(own, room.userCount)]
                                        ELSE prev.currentZone]

\* What the handler that runs next sees of the messages, the discovered zones
\* and the observed members.
Snapshot ==
    [messages |-> state.messages, availableRooms |-> state.availableRooms,
     members |-> activeMembers]

NoEffect == [st |-> state, members |-> activeMembers, out |-> <<>>]

\* A broadcast that keeps the observed members for the next window.
broadcastHostZone_NoReset ==
    IF ~stateRef.isHost \/ stateRef.currentZone = Null \/ ~mqtt.connected THEN NoEffect
    ELSE LET currentCount == Max(1, Cardinality(activeMembers))
         IN [st |-> state,
             members |-> activeMembers,
             out |-> <<Envelope(DISCOVERY_TOPIC, [stateRef.currentZone EXCEPT !.userCount = currentCount]),
                       Envelope(RoomTopic(stateRef.currentZone.id),
                                [type |-> "count_sync", count |-> currentCount])>>]

\* broadcastHostZone
broadcastHostZone ==
    IF ~stateRef.isHost \/ stateRef.currentZone = Null \/ ~mqtt.connected THEN NoEffect
    ELSE LET currentCount == Max(1, Cardinality(activeMembers))
         IN [st |-> state,
             members |-> {FINGERPRINT},
             out |-> <<Envelope(DISCOVERY_TOPIC, [stateRef.currentZone EXCEPT !.userCount = currentCount]),
                       Envelope(RoomTopic(stateRef.currentZone.id),
                                [type |-> "count_sync", count |-> currentCount])>>]

\* A peer that answers a history_req even when it holds no messages.
historyReply_Always(data) ==
    <<Envelope(RoomTopic(stateRef.currentZone.id),
               [type |-> "history_res", target |-> data.sender, payload |-> stateRef.messages])>>

\* handleRoomEvent, case 'history_req': what the peer publishes.
historyReply(data) ==
    IF Len(stateRef.messages) > 0
    THEN <<Envelope(RoomTopic(stateRef.currentZone.id),
                    [type |-> "history_res", target |-> data.sender,
                     payload |-> stateRef.messages])>>
    ELSE <<>>

\* A client that merges every history_res it sees.
isAddressee_Any(data) == data.target = data.target

\* handleRoomEvent, case 'history_res': the guard data.target === FINGERPRINT.
isAddressee(data) == data.target = FINGERPRINT

\* handleRoomEvent; the typing case is that of part_012.
handleRoomEvent(data) ==
    IF stateRef.currentZone = Null THEN NoEffect
    ELSE IF data.type = "message" THEN
        [st |-> AppendMessage(state, data.payload),
         members |-> IF stateRef.isHost /\ data.payload.sender # ""
                     THEN activeMembers \cup {data.payload.sender} ELSE activeMembers,
         out |-> <<>>]
    ELSE IF data.type = "presence" THEN
        [NoEffect EXCEPT !.members = IF stateRef.isHost THEN activeMembers \cup {data.sender}
                                     ELSE activeMembers]
    ELSE IF data.type = "count_sync" THEN
        [NoEffect EXCEPT !.st = IF state.currentZone # Null
                                THEN [state EXCEPT !.currentZone.userCount = data.count]
                                ELSE state]
    ELSE IF data.type = "history_req" THEN
        [NoEffect EXCEPT !.out = historyReply(data)]
    ELSE IF data.type = "history_res" THEN
        [NoEffect EXCEPT !.st = IF isAddressee(data)
                                THEN MergeHistory(state, data.payload) ELSE state]
    ELSE IF data.type = "typing" THEN
        IF stateRef.currentUser # Null /\ data.sender = stateRef.currentUser.username THEN NoEffect
        ELSE [NoEffect EXCEPT !.st =
                [state EXCEPT !.typingUsers =
                    [u \in DOMAIN state.typingUsers \cup {data.sender} |->
                        IF u = data.sender THEN now ELSE state.typingUsers[u]]]]
    ELSE NoEffect

\* A message handler that answers its own sync requests too.
onMessage_ReplyToSelf(topic, data) ==
    IF topic = DISCOVERY_TOPIC THEN
        [NoEffect EXCEPT !.st = handleDiscoveryPulse(state, data, hdlLocation, now)]
    ELSE IF topic = DISCOVERY_REQ_TOPIC THEN
        IF stateRef.isHost THEN broadcastHostZone ELSE NoEffect
    ELSE IF stateRef.currentZone # Null /\ topic = RoomTopic(stateRef.currentZone.id) THEN
        handleRoomEvent(data)
    ELSE NoEffect

\* client.on('message')
onMessage(topic, data) ==
    IF topic = DISCOVERY_TOPIC THEN
        [NoEffect EXCEPT !.st = handleDiscoveryPulse(state, data, hdlLocation, now)]
    ELSE IF topic = DISCOVERY_REQ_TOPIC THEN
        IF stateRef.isHost /\ data.sender # FINGERPRINT THEN broadcastHostZone ELSE NoEffect
    ELSE IF stateRef.currentZone # Null /\ topic = RoomTopic(stateRef.currentZone.id) THEN
        handleRoomEvent(data)
    ELSE NoEffect

\* The broker hands the client an answer that is in flight to its connection.
Receive ==
    \E e \in mqtt.inflight :
        /\ mqtt.connected
        /\ e.topic \in mqtt.subs
        /\ LET r == onMessage(e.topic, e.data) IN
            /\ state' = r.st
            /\ activeMembers' = r.members
            /\ outbox' = r.out
        /\ mqtt' = [mqtt EXCEPT !.inflight = @ \ {e}]
        /\ lastEvent' = [op |-> "deliver", env |-> e, before |-> Snapshot,
                       threw |-> (e.topic = DISCOVERY_TOPIC /\ UpdaterThrows(e.data, hdlLocation))]
        /\ UNCHANGED <<now, stateRef, userLocation, hdlLocation, loading, isLoading, timers,
                       ackPending, pendingCreate, pendingZone, created, alert, peerMessages,
                       roomPassword>>

\* The broker hands an envelope of a subscribed topic to the message handler.
Deliver(e) ==
    /\ mqtt.connected
    /\ e.topic \in mqtt.subs
    /\ LET r == onMessage(e.topic, e.data) IN
        /\ state' = r.st
        /\ activeMembers' = r.members
        /\ outbox' = r.out
    /\ UNCHANGED peerMessages
    /\ UNCHANGED roomPassword
    /\ lastEvent' = [op |-> "deliver", env |-> e, before |-> Snapshot,
                       threw |-> (e.topic = DISCOVERY_TOPIC /\ UpdaterThrows(e.data, hdlLocation))]
    /\ UNCHANGED <<now, stateRef, userLocation, hdlLocation, loading, isLoading, mqtt, timers,
                   ackPending, pendingCreate, pendingZone, created, alert>>

\* Date.now() advances.
Tick ==
    /\ now < MaxTime
    /\ now' = now + 1
    /\ outbox' = <<>>
    /\ UNCHANGED peerMessages
    /\ UNCHANGED roomPassword
    /\ lastEvent' = [op |-> "tick"]
    /\ UNCHANGED <<state, stateRef, userLocation, hdlLocation, loading, isLoading, mqtt, timers,
                   ackPending, pendingCreate, activeMembers, pendingZone, created, alert>>

\* updateLocation with a position: its closure is the one of the mount, where
\* userLocation is null, so the sync request goes out whenever connected.
UpdateLocation(pos) ==
    /\ userLocation' = pos
    /\ outbox' = IF mqtt.connected THEN <<SyncReq>> ELSE <<>>
    /\ UNCHANGED peerMessages
    /\ UNCHANGED roomPassword
    /\ lastEvent' = [op |-> "updateLocation"]
    /\ UNCHANGED <<now, state, stateRef, hdlLocation, loading, isLoading, mqtt, timers, ackPending,
                   pendingCreate, activeMembers, pendingZone, created, alert>>

\* What a committed render and its effects do, given the state and the
\* loading flag it renders: stateRef.current is set, and when currentZone?.id
\* or isHost changed the MQTT client is ended and a new one created, whose
\* message handler closes over this render's userLocation.
Commit(newState, newLoading) ==
    /\ stateRef' = newState
    /\ isLoading' = newLoading
    /\ IF IdOf(newState.currentZone) # IdOf(stateRef.currentZone)
          \/ newState.isHost # stateRef.isHost
       THEN /\ mqtt' = [connected |-> FALSE, subs |-> {}, inflight |-> {}]
            /\ hdlLocation' = userLocation
       ELSE UNCHANGED <<mqtt, hdlLocation>>

\* A pending render is committed and its effects run.
Refresh ==
    /\ state # stateRef \/ loading # isLoading
    /\ Commit(state, loading)
    /\ outbox' = <<>>
    /\ UNCHANGED peerMessages
    /\ UNCHANGED roomPassword
    /\ lastEvent' = [op |-> "refresh"]
    /\ UNCHANGED <<now, state, userLocation, loading, timers, ackPending, pendingCreate,
                   activeMembers, pendingZone, created, alert>>

\* The peer in zone zA runs the same handleRoomEvent: it answers a history_req
\* on its zone's topic when it holds messages.  The answer is in flight to
\* the connection that published the request.
peerReply(req) ==
    IF req.topic = RoomTopic("zA") /\ Len(peerMessages) > 0
    THEN {Envelope(req.topic, [type |-> "history_res", target |-> req.data.sender,
                               payload |-> peerMessages])}
    ELSE {}

\* A connect handler that restores the discovery subscriptions only.
Connect_DiscoveryOnly ==
    /\ ~mqtt.connected
    /\ mqtt' = [connected |-> TRUE,
                subs |-> {DISCOVERY_TOPIC, DISCOVERY_REQ_TOPIC},
                inflight |-> {}]
    /\ outbox' = <<SyncReq>>
    /\ UNCHANGED peerMessages
    /\ UNCHANGED roomPassword
    /\ lastEvent' = [op |-> "connect"]
    /\ UNCHANGED <<now, state, stateRef, userLocation, hdlLocation, loading, isLoading, timers,
                   ackPending, pendingCreate, activeMembers, pendingZone, created, alert>>

\* A connect handler that subscribes and announces presence but does not
\* request the history.
Connect_NoHistoryReq ==
    /\ ~mqtt.connected
    /\ mqtt' = [connected |-> TRUE,
                subs |-> {DISCOVERY_TOPIC, DISCOVERY_REQ_TOPIC}
                         \cup (IF stateRef.currentZone # Null
                               THEN {RoomTopic(stateRef.currentZone.id)} ELSE {}),
                inflight |-> {}]
    /\ outbox' = <<SyncReq>> \o (IF stateRef.currentZone # Null
                                 THEN <<Presence(stateRef.currentZone.id)>>
                                 ELSE <<>>)
    /\ UNCHANGED peerMessages
    /\ UNCHANGED roomPassword
    /\ lastEvent' = [op |-> "connect"]
    /\ UNCHANGED <<now, state, stateRef, userLocation, hdlLocation, loading, isLoading, timers,
                   ackPending, pendingCreate, activeMembers, pendingZone, created, alert>>

\* client.on('connect')
Connect ==
    /\ ~mqtt.connected
    /\ mqtt' = [connected |-> TRUE,
                subs |-> {DISCOVERY_TOPIC, DISCOVERY_REQ_TOPIC}
                         \cup (IF stateRef.currentZone # Null
                               THEN {RoomTopic(stateRef.currentZone.id)} ELSE {}),
                inflight |-> IF stateRef.currentZone # Null
                             THEN peerReply(HistoryReq(stateRef.currentZone.id)) ELSE {}]
    /\ outbox' = <<SyncReq>> \o (IF stateRef.currentZone # Null
                                 THEN <<HistoryReq(stateRef.currentZone.id),
                                        Presence(stateRef.currentZone.id)>>
                                 ELSE <<>>)
    /\ UNCHANGED peerMessages
    /\ UNCHANGED roomPassword
    /\ lastEvent' = [op |-> "connect"]
    /\ UNCHANGED <<now, state, stateRef, userLocation, hdlLocation, loading, isLoading, timers,
                   ackPending, pendingCreate, activeMembers, pendingZone, created, alert>>

\* The connection drops; the broker forgets the subscriptions of a clean session.
Disconnect ==
    /\ mqtt.connected
    /\ mqtt' = [connected |-> FALSE, subs |-> {}, inflight |-> {}]
    /\ outbox' = <<>>
    /\ UNCHANGED peerMessages
    /\ UNCHANGED roomPassword
    /\ lastEvent' = [op |-> "disconnect"]
    /\ UNCHANGED <<now, state, stateRef, userLocation, hdlLocation, loading, isLoading, timers,
                   ackPending, pendingCreate, activeMembers, pendingZone, created, alert>>

\* The zones JoinScreen offers: the rendered list and the deep-linked zone.
Selectable ==
    {stateRef.availableRooms[i] : i \in 1..Len(stateRef.availableRooms)}
    \cup (IF pendingZone = Null THEN {} ELSE {pendingZone})

\* The password check of joinRoom.
accessDenied(zone, password) ==
    /\ zone.type = "private"
    /\ zone.passwordHash # Undefined
    /\ hashPassword(password) # zone.passwordHash

\* handleJoinFinal and joinRoom up to its setTimeout.
JoinStart(zone, username, password) ==
    /\ stateRef.currentZone = Null
    /\ ~isLoading
    /\ zone \in Selectable
    /\ zone.type = "private" => password # ""
    /\ Len(timers) < MaxTimers
    /\ IF accessDenied(zone, password)
       THEN /\ loading' = FALSE
            /\ isLoading' = TRUE
            /\ alert' = "Access Denied: Invalid Key."
            /\ UNCHANGED timers
       ELSE /\ loading' = TRUE
            /\ isLoading' = TRUE
            /\ timers' = Append(timers, [kind |-> "enter", zone |-> zone, username |-> username,
                                         isHost |-> (zone.hostId = FINGERPRINT)])
            /\ UNCHANGED alert
    /\ outbox' = <<>>
    /\ UNCHANGED peerMessages
    /\ roomPassword' = IF zone.type = "private" /\ zone.passwordHash # Undefined
                          /\ ~accessDenied(zone, password)
                       THEN password ELSE roomPassword
    /\ lastEvent' = [op |-> "joinRoom", zone |-> zone, password |-> password]
    /\ UNCHANGED <<now, state, stateRef, userLocation, hdlLocation, mqtt, ackPending,
                   pendingCreate, activeMembers, pendingZone, created>>

\* handleCreate and createRoom up to `await getCurrentPosition()`.
CreateStart(name, type, username, password) ==
    /\ stateRef.currentZone = Null
    /\ ~isLoading
    /\ pendingCreate = Null
    /\ created < MaxCreated
    /\ type = "private" => password # ""
    /\ loading' = TRUE
    /\ isLoading' = TRUE
    /\ pendingCreate' = [name |-> name, type |-> type, username |-> username, password |-> password]
    /\ outbox' = <<>>
    /\ UNCHANGED peerMessages
    /\ UNCHANGED roomPassword
    /\ lastEvent' = [op |-> "createRoom"]
    /\ UNCHANGED <<now, state, stateRef, userLocation, hdlLocation, mqtt, timers, ackPending,
                   activeMembers, pendingZone, created, alert>>

\* The zone createRoom builds once the position is known.
newZone(req, pos, n, t) ==
    [id |-> NewZoneId(n), name |-> toUpperCase(req.name), type |-> req.type, hostId |-> FINGERPRINT,
     passwordHash |-> IF req.password # "" THEN hashPassword(req.password) ELSE Undefined,
     center |-> pos, createdAt |-> t, expiresAt |-> t + SESSION_DURATION_MS, userCount |-> 1]

\* getCurrentPosition resolves: createRoom builds the zone and schedules enterZone.
CreatePositionOk(pos) ==
    /\ pendingCreate # Null
    /\ Len(timers) < MaxTimers
    /\ timers' = Append(timers, [kind |-> "enter",
                                 zone |-> newZone(pendingCreate, pos, created + 1, now),
                                 username |-> pendingCreate.username, isHost |-> TRUE])
    /\ created' = created + 1
    /\ pendingCreate' = Null
    /\ loading' = TRUE
    /\ outbox' = <<>>
    /\ UNCHANGED peerMessages
    /\ roomPassword' = IF pendingCreate.password # "" THEN pendingCreate.password
                       ELSE roomPassword
    /\ lastEvent' = [op |-> "createRoom.position"]
    /\ UNCHANGED <<isLoading, now, state, stateRef, userLocation, hdlLocation, mqtt, ackPending,
                   activeMembers, pendingZone, alert>>

\* A catch block that falls back to the origin and creates the zone anyway.
CreatePositionFail_Fallback ==
    /\ pendingCreate # Null
    /\ Len(timers) < MaxTimers
    /\ timers' = Append(timers, [kind |-> "enter",
                                 zone |-> newZone(pendingCreate, [lat |-> 0, lng |-> 0],
                                                  created + 1, now),
                                 username |-> pendingCreate.username, isHost |-> TRUE])
    /\ created' = created + 1
    /\ pendingCreate' = Null
    /\ loading' = TRUE
    /\ outbox' = <<>>
    /\ UNCHANGED peerMessages
    /\ roomPassword' = IF pendingCreate.password # "" THEN pendingCreate.password
                       ELSE roomPassword
    /\ lastEvent' = [op |-> "createRoom.catch"]
    /\ UNCHANGED <<isLoading, now, state, stateRef, userLocation, hdlLocation, mqtt, ackPending,
                   activeMembers, pendingZone, alert>>

\* getCurrentPosition rejects: the catch block of createRoom.
CreatePositionFail ==
    /\ pendingCreate # Null
    /\ pendingCreate' = Null
    /\ alert' = "Location access is mandatory for discovery."
    /\ loading' = FALSE
    /\ outbox' = <<>>
    /\ UNCHANGED peerMessages
    /\ UNCHANGED roomPassword
    /\ lastEvent' = [op |-> "createRoom.catch"]
    /\ UNCHANGED <<isLoading, now, state, stateRef, userLocation, hdlLocation, mqtt, timers, ackPending,
                   activeMembers, pendingZone, created>>

\* The updater of enterZone.
\* An enterZone that makes whoever enters the host.
enterZone_AlwaysHost(prev, zone, username, isHost, t) ==
    [prev EXCEPT !.currentZone = zone,
                 !.currentUser = [username |-> toUpperCase(username)],
                 !.isHost = TRUE,
                 !.messages = <<>>,
                 !.timeLeft = zone.expiresAt - t]

enterZone(prev, zone, username, isHost, t) ==
    [prev EXCEPT !.currentZone = zone,
                 !.currentUser = [username |-> toUpperCase(username)],
                 !.isHost = isHost,
                 !.messages = <<>>,
                 !.timeLeft = zone.expiresAt - t]

\* The updater of finalize in handleExit.
finalize(prev) ==
    [prev EXCEPT !.currentZone = Null, !.currentUser = Null, !.messages = <<>>,
                 !.isHost = FALSE, !.timeLeft = SESSION_DURATION_MS]

\* The oldest pending timeout fires: the enterZone timeout of joinRoom or
\* createRoom, the safety timeout of handleExit, or a timeout that hides the
\* loading overlay.
TimerFire ==
    /\ timers # <<>>
    /\ LET t == Head(timers) IN
        IF t.kind = "enter" THEN
            /\ state' = enterZone(state, t.zone, t.username, t.isHost, now)
            /\ pendingZone' = Null
            /\ loading' = FALSE
            /\ timers' = Tail(timers)
            /\ outbox' = IF mqtt.connected
                         THEN <<SystemMessage(t.zone.id, "join", toUpperCase(t.username), now),
                                HistoryReq(t.zone.id), Presence(t.zone.id)>>
                         ELSE <<>>
            /\ UNCHANGED roomPassword
        ELSE IF t.kind = "finalize" THEN
            /\ state' = finalize(state)
            /\ loading' = TRUE
            /\ timers' = Append(Tail(timers), [kind |-> "clear"])
            /\ outbox' = <<>>
            /\ roomPassword' = ""
            /\ UNCHANGED pendingZone
        ELSE
            /\ loading' = FALSE
            /\ timers' = Tail(timers)
            /\ outbox' = <<>>
            /\ UNCHANGED <<state, pendingZone, roomPassword>>
    /\ UNCHANGED peerMessages
    /\ lastEvent' = [op |-> "timer", timer |-> Head(timers)]
    /\ UNCHANGED <<isLoading, now, stateRef, userLocation, hdlLocation, mqtt, ackPending, pendingCreate,
                   activeMembers, created, alert>>

\* handleExit, run with the state of the render that created it.  Called from
\* a click (`sync`) its state updates are rendered before the click returns.
handleExit(sync) ==
    /\ Len(timers) < MaxTimers
    /\ IF mqtt.connected /\ stateRef.currentZone # Null /\ stateRef.currentUser # Null
       THEN /\ outbox' = <<SystemMessage(stateRef.currentZone.id, "leave",
                                         stateRef.currentUser.username, now)>>
            /\ ackPending' = IF ackPending < MaxAcks THEN ackPending + 1 ELSE ackPending
            /\ timers' = Append(timers, [kind |-> "finalize"])
            /\ UNCHANGED <<state, loading, stateRef, isLoading, mqtt, hdlLocation, roomPassword>>
       ELSE /\ state' = finalize(state)
            /\ loading' = TRUE
            /\ timers' = Append(timers, [kind |-> "clear"])
            /\ outbox' = <<>>
            /\ IF sync THEN Commit(finalize(state), TRUE)
               ELSE UNCHANGED <<stateRef, isLoading, mqtt, hdlLocation>>
            /\ roomPassword' = ""
            /\ UNCHANGED ackPending

\* "Exit Now" in the confirmation dialog.
ExitClick ==
    /\ stateRef.currentZone # Null
    /\ handleExit(TRUE)
    /\ UNCHANGED peerMessages
    /\ lastEvent' = [op |-> "exitClick"]
    /\ UNCHANGED <<now, userLocation, pendingCreate, activeMembers, pendingZone, created, alert>>

\* The publish callback of the system-leave message runs finalize.
PublishAck ==
    /\ ackPending > 0
    /\ Len(timers) < MaxTimers
    /\ ackPending' = ackPending - 1
    /\ state' = finalize(state)
    /\ loading' = TRUE
    /\ timers' = Append(timers, [kind |-> "clear"])
    /\ outbox' = <<>>
    /\ UNCHANGED peerMessages
    /\ roomPassword' = ""
    /\ lastEvent' = [op |-> "publishAck"]
    /\ UNCHANGED <<isLoading, now, stateRef, userLocation, hdlLocation, mqtt, pendingCreate,
                   activeMembers, pendingZone, created, alert>>

\* A countdown that exits only once the remaining time is negative.
CountdownTick_Late ==
    /\ stateRef.currentZone # Null
    /\ IF stateRef.currentZone.expiresAt - now < 0
       THEN handleExit(FALSE)
       ELSE /\ state' = [state EXCEPT !.timeLeft = stateRef.currentZone.expiresAt - now]
            /\ outbox' = <<>>
            /\ UNCHANGED <<loading, isLoading, timers, ackPending, stateRef, mqtt, hdlLocation,
                           roomPassword>>
    /\ UNCHANGED peerMessages
    /\ lastEvent' = [op |-> "countdown"]
    /\ UNCHANGED <<now, userLocation, pendingCreate,
                   activeMembers, pendingZone, created, alert>>

\* The countdown interval, which exists while the rendered state has a zone.
CountdownTick ==
    /\ stateRef.currentZone # Null
    /\ IF stateRef.currentZone.expiresAt - now <= 0
       THEN handleExit(FALSE)
       ELSE /\ state' = [state EXCEPT !.timeLeft = stateRef.currentZone.expiresAt - now]
            /\ outbox' = <<>>
            /\ UNCHANGED <<loading, isLoading, timers, ackPending, stateRef, mqtt, hdlLocation,
                           roomPassword>>
    /\ UNCHANGED peerMessages
    /\ lastEvent' = [op |-> "countdown"]
    /\ UNCHANGED <<now, userLocation, pendingCreate,
                   activeMembers, pendingZone, created, alert>>

\* The host interval: broadcastHostZone every DISCOVERY_PULSE_INTERVAL_MS.
HostPulse ==
    /\ stateRef.isHost
    /\ stateRef.currentZone # Null
    /\ LET r == broadcastHostZone IN
        /\ activeMembers' = r.members
        /\ outbox' = r.out
    /\ UNCHANGED peerMessages
    /\ UNCHANGED roomPassword
    /\ lastEvent' = [op |-> "hostPulse", before |-> Snapshot]
    /\ UNCHANGED <<now, state, stateRef, userLocation, hdlLocation, loading, isLoading, mqtt, timers,
                   ackPending, pendingCreate, pendingZone, created, alert>>

\* The presence interval of a client in a zone.
PresencePulse ==
    /\ stateRef.currentZone # Null
    /\ mqtt.connected
    /\ outbox' = <<Presence(stateRef.currentZone.id)>>
    /\ UNCHANGED peerMessages
    /\ UNCHANGED roomPassword
    /\ lastEvent' = [op |-> "presencePulse"]
    /\ UNCHANGED <<now, state, stateRef, userLocation, hdlLocation, loading, isLoading, mqtt, timers,
                   ackPending, pendingCreate, activeMembers, pendingZone, created, alert>>

\* sendMessage, called by handleSubmit of the ChatRoom, which is rendered
\* while the committed state has a zone and a user.  publish gets no callback
\* and the promise resolves whatever happens; while the client is offline
\* the packet does not reach the broker in this step.
SendMessage ==
    /\ stateRef.currentUser # Null
    /\ stateRef.currentZone # Null
    /\ outbox' = IF mqtt.connected
                 THEN <<Envelope(RoomTopic(stateRef.currentZone.id),
                                 [type |-> "message",
                                  payload |-> [id |-> "u" \o ToString(now),
                                               sender |-> stateRef.currentUser.username,
                                               timestamp |-> now, isSystem |-> FALSE]])>>
                 ELSE <<>>
    /\ UNCHANGED peerMessages
    /\ UNCHANGED roomPassword
    /\ lastEvent' = [op |-> "sendMessage", handed |-> mqtt.connected, outcome |-> "resolved"]
    /\ UNCHANGED <<now, state, stateRef, userLocation, hdlLocation, loading, isLoading, mqtt, timers,
                   ackPending, pendingCreate, activeMembers, pendingZone, created, alert>>

\* handleBrandClick outside a zone: a discovery refresh.
BrandClick ==
    /\ stateRef.currentZone = Null
    /\ ~isLoading
    /\ Len(timers) < MaxTimers
    /\ loading' = TRUE
    /\ isLoading' = TRUE
    /\ timers' = Append(timers, [kind |-> "clear"])
    /\ outbox' = IF mqtt.connected THEN <<SyncReq>> ELSE <<>>
    /\ UNCHANGED peerMessages
    /\ UNCHANGED roomPassword
    /\ lastEvent' = [op |-> "brandClick"]
    /\ UNCHANGED <<now, state, stateRef, userLocation, hdlLocation, mqtt, ackPending,
                   pendingCreate, activeMembers, pendingZone, created, alert>>

\* A sweep that filters the zones and forgets the typing entries.
sweep_RoomsOnly(prev, loc, t) ==
    [prev EXCEPT !.availableRooms =
        SelectSeq(prev.availableRooms, LAMBDA room : ~(room.expiresAt <= t) /\ InRange(loc, room))]

\* A sweep that keeps a zone in the very millisecond it expires.
sweep_StrictExpiry(prev, loc, t) ==
    [prev EXCEPT !.availableRooms =
        SelectSeq(prev.availableRooms, LAMBDA room : ~(room.expiresAt < t) /\ InRange(loc, room))]

\* The updater of the sweep interval of part_012: `loc` is the current userLocation.
sweep(prev, loc, t) ==
    LET fresh == {u \in DOMAIN prev.typingUsers : ~(t - prev.typingUsers[u] > TYPING_EXPIRY_MS)}
        newTyping == [u \in fresh |-> prev.typingUsers[u]]
        filteredRooms == SelectSeq(prev.availableRooms,
                                   LAMBDA room : ~(room.expiresAt <= t) /\ InRange(loc, room))
        changed == fresh # DOMAIN prev.typingUsers
                   \/ Len(filteredRooms) # Len(prev.availableRooms)
    IN IF changed
       THEN [prev EXCEPT !.typingUsers = newTyping, !.availableRooms = filteredRooms]
       ELSE prev

SweepTick ==
    /\ state' = sweep(state, userLocation, now)
    /\ outbox' = <<>>
    /\ UNCHANGED peerMessages
    /\ UNCHANGED roomPassword
    /\ lastEvent' = [op |-> "sweep", before |-> Snapshot]
    /\ UNCHANGED <<now, stateRef, userLocation, hdlLocation, loading, isLoading, mqtt, timers,
                   ackPending, pendingCreate, activeMembers, pendingZone, created, alert>>

----------------------------------------------------------------------------
(* The session life cycle: one client that discovers, joins, creates and     *)
(* leaves zones while the broker delivers descriptors and replayed history.  *)
(* The clock stands still here; SpecExpiry lets it run.                      *)

HistoryRes(zoneId, who, payload) ==
    Envelope(RoomTopic(zoneId), [type |-> "history_res", target |-> who, payload |-> payload])

\* The message of a room that carries the later timestamp.
LateMsg(zoneId) == CHOOSE m \in MsgsOf(zoneId) : m.timestamp = 2

SessionPool ==
    {Envelope(DISCOVERY_TOPIC, ZoneA(1)), Envelope(DISCOVERY_TOPIC, ZoneB(1))}
    \cup {HistoryRes(id, FINGERPRINT, <<LateMsg(id)>>) : id \in {"zA", NewZoneId(1)}}

Next ==
    \/ Refresh
    \/ Connect
    \/ \E e \in SessionPool : Deliver(e)
    \/ \E zone \in Selectable, password \in {"k", "kx"} : JoinStart(zone, "bob", password)
    \/ CreateStart("BUNKER", "private", "bob", "k")
    \/ \E pos \in {[lat |-> 0, lng |-> 0]} : CreatePositionOk(pos)
    \/ CreatePositionFail
    \/ TimerFire
    \/ ExitClick
    \/ PublishAck

Spec == Init /\ [][Next]_vars

\* C1: session isolation.  Every message the client holds while it is in a
\* zone was sent in that zone: a history_res replayed in the zone the client
\* has left is never merged into the messages of the zone it is in now.
C1_SessionIsolation ==
    state.currentZone # Null =>
        \A i \in 1..Len(state.messages) : state.messages[i] \in MsgsOf(state.currentZone.id)

\* C8: joining a private zone.  A join of a private zone with a password
\* whose digest differs from the zone's passwordHash is refused with
\* "Access Denied", schedules no entry and leaves the session as it was.
C8_PrivateJoinNeedsDigest ==
    (/\ lastEvent.op = "joinRoom"
     /\ lastEvent.zone.type = "private"
     /\ hashPassword(lastEvent.password) # lastEvent.zone.passwordHash)
    => /\ alert = "Access Denied: Invalid Key."
       /\ \A i \in 1..Len(timers) :
             timers[i].kind = "enter" => timers[i].zone.id # lastEvent.zone.id
       /\ state.currentZone = Null

----------------------------------------------------------------------------
(* Zone creation: an idle client creates zones, public and private, while    *)
(* the position request resolves or is rejected, enters them and leaves.     *)

InitNoLink == Init /\ pendingZone = Null

NextCreate ==
    \/ Refresh
    \/ Connect
    \/ \E type \in {"public", "private"}, password \in {"", "k"} :
          CreateStart("BUNKER", type, "bob", password)
    \/ \E pos \in Positions : CreatePositionOk(pos)
    \/ CreatePositionFail
    \/ TimerFire
    \/ ExitClick
    \/ PublishAck

SpecCreate == InitNoLink /\ [][NextCreate]_vars

\* C9: createZone needs a position.  When the position request is rejected
\* the user is told that location is mandatory, and the step creates no zone,
\* schedules no entry, publishes nothing and leaves the session as it was.
C9_LocationRequired ==
    [][lastEvent'.op = "createRoom.catch" =>
        /\ alert' = "Location access is mandatory for discovery."
        /\ state' = state
        /\ timers' = timers
        /\ created' = created
        /\ outbox' = <<>>
        /\ pendingCreate' = Null
        /\ ~loading']_vars

\* A rejected position request left the client idle with the location alert.
C9_Witness ==
    /\ lastEvent.op = "createRoom.catch"
    /\ alert = "Location access is mandatory for discovery."
    /\ state.currentZone = Null
    /\ timers = <<>>
    /\ created = 0

----------------------------------------------------------------------------
(* History merge: a client joins the public zone and the broker delivers     *)
(* chat messages and replayed histories of that zone, in any order and any   *)
(* number of times.                                                          *)

MergePool ==
    {Envelope(DISCOVERY_TOPIC, ZoneA(1))}
    \cup {Envelope(RoomTopic("zA"), [type |-> "message", payload |-> m]) : m \in MsgsOf("zA")}
    \cup {HistoryRes("zA", who, h) : who \in {FINGERPRINT, "p1"}, h \in HistoryPayloads("zA")}
    \cup {Envelope(RoomTopic("zA"), [type |-> "history_req", sender |-> "p1"])}

NextMerge ==
    \/ Refresh
    \/ Connect
    \/ \E e \in MergePool : Deliver(e)
    \/ \E zone \in Selectable : JoinStart(zone, "bob", "")
    \/ TimerFire

SpecMerge == InitNoLink /\ [][NextMerge]_vars

\* The last step handed the history_res updater a payload addressed to this client.
MergedHistory ==
    /\ lastEvent.op = "deliver"
    /\ lastEvent.env.data.type = "history_res"
    /\ lastEvent.env.data.target = FINGERPRINT
    /\ stateRef.currentZone # Null
    /\ lastEvent.env.topic = RoomTopic(stateRef.currentZone.id)

\* C2: merge idempotence.  After a history_res addressed to the client has
\* been merged, the messages are the result of merging it once into the
\* messages held before, and merging the same payload again yields exactly
\* that sequence.
C2_MergeIdempotent ==
    MergedHistory =>
        LET payload == lastEvent.env.data.payload
            once == MergeHistory([state EXCEPT !.messages = lastEvent.before.messages],
                                 payload).messages
            twice == MergeHistory([state EXCEPT !.messages = once], payload).messages
        IN state.messages = once /\ twice = once

\* A two-message history was merged into messages that held one of the two.
C2_Witness ==
    /\ MergedHistory
    /\ Len(lastEvent.env.data.payload) = 2
    /\ Ids(lastEvent.before.messages) \cap Ids(lastEvent.env.data.payload) # {}
    /\ Ids(lastEvent.env.data.payload) \ Ids(lastEvent.before.messages) # {}
    /\ Len(state.messages) = Len(lastEvent.before.messages) + 1

\* C3: merge ordering.  The messages that result from merging a history_res,
\* whatever the order of its payload and of the messages held before, ascend
\* by timestamp.
C3_MergeSorted ==
    MergedHistory =>
        \A i, j \in 1..Len(state.messages) :
            i < j => state.messages[i].timestamp < state.messages[j].timestamp

\* A history in descending order was merged into messages that were out of order.
C3_Witness ==
    /\ MergedHistory
    /\ Len(lastEvent.env.data.payload) = 2
    /\ lastEvent.env.data.payload[1].timestamp > lastEvent.env.data.payload[2].timestamp
    /\ Ids(lastEvent.env.data.payload) \ Ids(lastEvent.before.messages) # {}
    /\ \E i, j \in 1..Len(lastEvent.before.messages) :
          i < j /\ lastEvent.before.messages[i].timestamp > lastEvent.before.messages[j].timestamp
    /\ Len(state.messages) = 3

\* C4: the messages are unique by id in every reachable state, whatever
\* message and history_res envelopes arrive and however often.
C4_MessageIdsUnique ==
    \A i, j \in 1..Len(state.messages) :
        state.messages[i].id = state.messages[j].id => i = j

\* A chat message the client already held was delivered again.
C4_Witness ==
    /\ lastEvent.op = "deliver"
    /\ lastEvent.env.data.type = "message"
    /\ stateRef.currentZone # Null
    /\ lastEvent.env.topic = RoomTopic(stateRef.currentZone.id)
    /\ lastEvent.env.data.payload.id \in Ids(lastEvent.before.messages)
    /\ Len(state.messages) >= 2

----------------------------------------------------------------------------
(* Discovery: an idle client whose position becomes known and changes while  *)
(* the clock runs, the peers' hosts pulse their descriptors and the sweep    *)
(* interval fires.                                                           *)

DiscoveryPool ==
    {Envelope(DISCOVERY_TOPIC, z) : z \in {ZoneA(c) : c \in Counts} \cup {ZoneB(c) : c \in Counts}}

NextDiscovery ==
    \/ Tick
    \/ \E pos \in Positions : UpdateLocation(pos)
    \/ Connect
    \/ Refresh
    \/ \E e \in DiscoveryPool : Deliver(e)
    \/ SweepTick

SpecDiscovery == InitNoLink /\ [][NextDiscovery]_vars

\* The last step handed a zone descriptor to handleDiscoveryPulse.
GotDescriptor == lastEvent.op = "deliver" /\ lastEvent.env.topic = DISCOVERY_TOPIC

\* C5: the upsert rule.  After a descriptor has been processed the zone is
\* cached, with the descriptor's fields, when it is unexpired and within the
\* radius of the position the handler uses, and no entry with its id is
\* cached otherwise: an expired or out-of-range descriptor removes the entry.
C5_UpsertOrRemove ==
    GotDescriptor =>
        LET z == lastEvent.env.data IN
        IF z.expiresAt > now /\ InRange(hdlLocation, z)
        THEN \E i \in 1..Len(state.availableRooms) : state.availableRooms[i] = z
        ELSE z.id \notin Ids(state.availableRooms)

\* C6: the expiry sweep.  After a sweep tick no cached zone has
\* expiresAt <= now, whether or not its host still pulses.
C6_SweepRemovesExpired ==
    lastEvent.op = "sweep" =>
        \A i \in 1..Len(state.availableRooms) : state.availableRooms[i].expiresAt > now

\* A sweep tick found a zone cached that expired in this very millisecond and
\* another that has not expired, and kept only the latter.
C6_Witness ==
    /\ lastEvent.op = "sweep"
    /\ \E i \in 1..Len(lastEvent.before.availableRooms) :
          lastEvent.before.availableRooms[i].expiresAt = now
    /\ Len(state.availableRooms) = 1
    /\ state.availableRooms[1].expiresAt > now

\* C7: the distance filter.  With the client's position known, an unexpired
\* zone exactly RADIUS_KM away is cached once its descriptor is processed,
\* and a zone farther away is not.
C7_DistanceFilter ==
    (GotDescriptor /\ userLocation # Null /\ lastEvent.env.data.expiresAt > now) =>
        LET z == lastEvent.env.data
            dist == calculateDistance(userLocation.lat, userLocation.lng,
                                      z.center.lat, z.center.lng)
        IN /\ dist = RADIUS_KM => z.id \in Ids(state.availableRooms)
           /\ dist > RADIUS_KM => z.id \notin Ids(state.availableRooms)

----------------------------------------------------------------------------
(* Expiry: the clock runs while a client joins the public zone, stays, and   *)
(* may leave by hand.  Renders are committed, the countdown interval fires   *)
(* and due timeouts run: React's scheduler and the browser's timers starve   *)
(* none of them.                                                             *)

NextExpiry ==
    \/ Tick
    \/ Refresh
    \/ Connect
    \/ Deliver(Envelope(DISCOVERY_TOPIC, ZoneA(1)))
    \/ \E zone \in Selectable : JoinStart(zone, "bob", "")
    \/ TimerFire
    \/ CountdownTick
    \/ ExitClick
    \/ PublishAck

SpecExpiry ==
    /\ InitNoLink
    /\ [][NextExpiry]_vars
    /\ WF_vars(Refresh)
    /\ WF_vars(CountdownTick)
    /\ WF_vars(TimerFire)

\* C10: automatic exit.  A session whose zone has expired returns to Idle
\* by the countdown alone.
C10_AutoExit ==
    (state.currentZone # Null /\ now >= state.currentZone.expiresAt)
        ~> (state.currentZone = Null)

\* The countdown tick found the zone expired and the client offline, and
\* ended the session on the spot.
C10_Witness ==
    /\ lastEvent.op = "countdown"
    /\ stateRef.currentZone # Null
    /\ now >= stateRef.currentZone.expiresAt
    /\ state.currentZone = Null

\* The last step ran handleExit and it published the system-leave message.
PublishedLeave ==
    /\ lastEvent.op \in {"exitClick", "countdown"}
    /\ outbox # <<>>
    /\ outbox[1].data.payload.systemType = "leave"

\* The last step ran finalize: from the publish callback or from the safety timeout.
RanFinalize ==
    \/ lastEvent.op = "publishAck"
    \/ lastEvent.op = "timer" /\ lastEvent.timer.kind = "finalize"

\* C11: exit is idempotent.  A system-leave message is published only when no
\* exit of the session is already under way (no publish callback and no safety
\* timeout pending), and finalize runs only on a session that is still
\* Active: one leave message and one reset per session, whether the exits
\* come from the user, from the countdown or from both.
C11_ExitOnce ==
    [][/\ PublishedLeave' =>
            /\ ackPending = 0
            /\ \A i \in 1..Len(timers) : timers[i].kind # "finalize"
       /\ RanFinalize' => state.currentZone # Null]_vars

----------------------------------------------------------------------------
(* Properties of the session state, checked over the session life cycle.     *)

\* C12: after exit the client holds nothing of the session it left.  While
\* the client is Idle its messages and its typingUsers are empty.
C12_IdleHoldsNothing ==
    state.currentZone = Null =>
        /\ state.messages = <<>>
        /\ DOMAIN state.typingUsers = {}

\* C13: the session state is never partial.  currentZone is null exactly
\* when currentUser is null, and an Idle client is no host and has no
\* messages, whatever is delivered while an exit or a join is in progress.
C13_NoPartialState ==
    /\ (state.currentZone = Null) <=> (state.currentUser = Null)
    /\ state.currentZone = Null => ~state.isHost /\ Len(state.messages) = 0

----------------------------------------------------------------------------
(* Hosting: a client creates a public zone and hosts it while two peers send *)
(* chat messages, presence pulses and sync requests, its own chat messages   *)
(* come back from the broker, and the host interval fires.                   *)

\* The client behind a sender field: presence and sync_req carry the
\* fingerprint, chat messages carry the username (p1 is EVE, p2 is DAN, this
\* client is BOB).
ClientOf(sender) ==
    CASE sender = "EVE" -> "p1"
      [] sender = "DAN" -> "p2"
      [] sender = "BOB" -> FINGERPRINT
      [] OTHER -> sender

OwnMessage(zoneId) ==
    [id |-> zoneId \o "-u1", sender |-> "BOB", timestamp |-> 1, isSystem |-> FALSE]

HostPool ==
    LET t == RoomTopic(NewZoneId(1)) IN
    {Envelope(t, [type |-> "message", payload |-> m]) :
        m \in {LateMsg(NewZoneId(1)), OwnMessage(NewZoneId(1))}}
    \cup {Envelope(t, [type |-> "presence", sender |-> s]) : s \in {"p1", "p2"}}
    \cup {Envelope(DISCOVERY_REQ_TOPIC, [type |-> "sync_req", sender |-> s]) :
            s \in {FINGERPRINT, "p1"}}

NextHost ==
    \/ Refresh
    \/ Connect
    \/ CreateStart("BUNKER", "public", "bob", "")
    \/ \E pos \in {[lat |-> 0, lng |-> 0]} : CreatePositionOk(pos)
    \/ TimerFire
    \/ \E e \in HostPool : Deliver(e)
    \/ HostPulse

SpecHost == InitNoLink /\ [][NextHost]_vars

\* The last step ran broadcastHostZone and it published.
Broadcast ==
    /\ lastEvent.op \in {"hostPulse", "deliver"}
    /\ Len(outbox) = 2
    /\ outbox[2].data.type = "count_sync"

\* C14: the host's count.  Every count the host publishes is the number of
\* distinct clients, itself included, whose message or presence envelopes it
\* observed in the window that the broadcast closes.
C14_CountIsDistinctClients ==
    Broadcast =>
        outbox[2].data.count = Cardinality({ClientOf(s) : s \in lastEvent.before.members})

\* C16: the host pulse.  A host pulse that publishes sends the zone
\* descriptor on the discovery topic and a count_sync on the zone topic with
\* the same count and leaves only the host in the observed set; a pulse that
\* follows a broadcast with no envelope in between counts the host alone, so
\* a member that fell silent is gone from the second broadcast on.
C16_PulsePublishesAndResets ==
    [][(lastEvent'.op = "hostPulse" /\ outbox' # <<>>) =>
        /\ Len(outbox') = 2
        /\ outbox'[1].topic = DISCOVERY_TOPIC
        /\ outbox'[1].data.id = stateRef.currentZone.id
        /\ outbox'[2].topic = RoomTopic(stateRef.currentZone.id)
        /\ outbox'[2].data.type = "count_sync"
        /\ outbox'[1].data.userCount = outbox'[2].data.count
        /\ activeMembers' = {FINGERPRINT}
        /\ Broadcast => outbox'[2].data.count = 1]_vars

\* A host pulse published a count of three and emptied the observed set.
C16_Witness ==
    /\ lastEvent.op = "hostPulse"
    /\ Broadcast
    /\ outbox[2].data.count = 3
    /\ outbox[1].data.userCount = 3
    /\ activeMembers = {FINGERPRINT}

\* The last step handed a sync request to the message handler.
GotSyncReq ==
    /\ lastEvent.op = "deliver"
    /\ lastEvent.env.topic = DISCOVERY_REQ_TOPIC
    /\ lastEvent.env.data.type = "sync_req"

----------------------------------------------------------------------------
(* Membership: a client joins the public zone of a peer and stays while the  *)
(* host's descriptors and count_sync envelopes, presence pulses and chat     *)
(* messages arrive.                                                          *)

MemberPool ==
    {Envelope(DISCOVERY_TOPIC, ZoneA(c)) : c \in Counts}
    \cup {Envelope(RoomTopic("zA"), [type |-> "count_sync", count |-> c]) : c \in Counts}
    \cup {Envelope(RoomTopic("zA"), [type |-> "presence", sender |-> "p1"]),
          Envelope(RoomTopic("zA"), [type |-> "message", payload |-> LateMsg("zA")])}

NextMember ==
    \/ Refresh
    \/ Connect
    \/ \E e \in MemberPool : Deliver(e)
    \/ \E zone \in Selectable : JoinStart(zone, "bob", "")
    \/ TimerFire

SpecMember == InitNoLink /\ [][NextMember]_vars

\* The step hands a count_sync of the zone to handleRoomEvent.
GetsCountSync ==
    /\ lastEvent'.op = "deliver"
    /\ lastEvent'.env.topic = RoomTopic(state.currentZone.id)
    /\ lastEvent'.env.data.type = "count_sync"

\* C15: a member that is not host never aggregates and never computes a
\* count.  While it stays in its zone its observed-member set never changes,
\* the count it displays changes only when a count_sync arrives, and then it
\* becomes the count the count_sync carries.
C15_MemberShowsLastCountSync ==
    [][(/\ ~state.isHost /\ ~stateRef.isHost
        /\ state.currentZone # Null
        /\ state'.currentZone # Null
        /\ state'.currentZone.id = state.currentZone.id) =>
            /\ activeMembers' = activeMembers
            /\ IF GetsCountSync /\ stateRef.currentZone # Null
               THEN state'.currentZone.userCount = lastEvent'.env.data.count
               ELSE state'.currentZone.userCount = state.currentZone.userCount]_vars

----------------------------------------------------------------------------
(* History replay, under SpecMerge.                                          *)

\* The last step handed a history_req on the zone's topic to handleRoomEvent.
GotHistoryReq ==
    /\ lastEvent.op = "deliver"
    /\ lastEvent.env.data.type = "history_req"
    /\ stateRef.currentZone # Null
    /\ lastEvent.env.topic = RoomTopic(stateRef.currentZone.id)

C19_ForeignHistoryIgnored ==
    [][(/\ lastEvent'.op = "deliver"
        /\ lastEvent'.env.data.type = "history_res"
        /\ lastEvent'.env.topic # DISCOVERY_TOPIC
        /\ lastEvent'.env.data.target # FINGERPRINT) =>
            /\ UNCHANGED <<state, stateRef, activeMembers, timers, mqtt, ackPending,
                           pendingCreate, pendingZone, loading, isLoading, alert>>
            /\ outbox' = <<>>]_vars

\* A client holding one message saw a history_res addressed to p1 that
\* carried a message it does not hold, and still holds what it held.
C19_Witness ==
    /\ lastEvent.op = "deliver"
    /\ lastEvent.env.data.type = "history_res"
    /\ lastEvent.env.data.target = "p1"
    /\ stateRef.currentZone # Null
    /\ lastEvent.env.topic = RoomTopic(stateRef.currentZone.id)
    /\ Len(lastEvent.before.messages) = 1
    /\ Ids(lastEvent.env.data.payload) \ Ids(lastEvent.before.messages) # {}
    /\ state.messages = lastEvent.before.messages

----------------------------------------------------------------------------
(* History replay for a newcomer: a peer in zone zA holds messages when the  *)
(* client joins, live messages keep arriving, and pending renders, timers,   *)
(* connection attempts and answers in flight eventually get their turn.      *)

InitReplay ==
    /\ Mounted
    /\ pendingZone = Null
    /\ peerMessages \in HistoryPayloads("zA")

ReplayPool ==
    {Envelope(DISCOVERY_TOPIC, ZoneA(1)),
     Envelope(RoomTopic("zA"), [type |-> "message", payload |-> LateMsg("zA")])}

NextReplay ==
    \/ Refresh
    \/ Connect
    \/ Receive
    \/ \E e \in ReplayPool : Deliver(e)
    \/ \E zone \in Selectable : JoinStart(zone, "bob", "")
    \/ TimerFire

\* The event loop of the client: a pending render, timer, connection attempt
\* or answer in flight.
Pending == Refresh \/ TimerFire \/ Connect \/ Receive

\* The event loop does not leave pending work undone for ever.
SpecReplay == InitReplay /\ [][NextReplay]_vars /\ WF_vars(Pending)

IsSorted(msgs) == \A i, j \in 1..Len(msgs) : i < j => msgs[i].timestamp <= msgs[j].timestamp

\* The last step ran enterZone: the newcomer is in the zone and holds nothing.
Entered ==
    /\ lastEvent.op = "timer"
    /\ lastEvent.timer.kind = "enter"
    /\ state.currentZone # Null
    /\ state.messages = <<>>

\* C20: history replay.  When the newcomer enters, with an empty history, the
\* zone in which a connected peer holds messages, and every envelope in
\* flight is eventually delivered, its messages eventually contain every
\* message the peer held, in ascending order of timestamp.
C20_HistoryReplayed ==
    Entered ~> (/\ peerMessages # <<>>
                /\ Ids(peerMessages) \subseteq Ids(state.messages)
                /\ IsSorted(state.messages))

\* The newcomer held nothing when the answer of a peer with two messages,
\* the later one first, arrived, and now holds both in order.
C20_Witness ==
    /\ lastEvent.op = "deliver"
    /\ lastEvent.env.data.type = "history_res"
    /\ lastEvent.env.data.payload = peerMessages
    /\ lastEvent.before.messages = <<>>
    /\ Len(peerMessages) = 2
    /\ peerMessages[1].timestamp > peerMessages[2].timestamp
    /\ mqtt.inflight = {}
    /\ Ids(state.messages) = Ids(peerMessages)
    /\ IsSorted(state.messages)

----------------------------------------------------------------------------
(* Membership convergence, under SpecHost.                                   *)

\* C21: membership convergence.  When the envelopes the host observed in the
\* window that a broadcast closes came from exactly one other client (p1,
\* whose handle is EVE), be they presence pulses, join notices or chat
\* messages, the host publishes a member count of 2 in the descriptor and in
\* the count_sync that both clients display.
C21_TwoClientsCountTwo ==
    (/\ Broadcast
     /\ {ClientOf(s) : s \in lastEvent.before.members} = {FINGERPRINT, "p1"}) =>
        /\ outbox[2].data.count = 2
        /\ outbox[1].data.userCount = 2

----------------------------------------------------------------------------
(* Reconnection: the connection of a client in a zone drops at any time and  *)
(* the mqtt client reconnects by itself (reconnectPeriod).                   *)

ReconnectPool ==
    {Envelope(DISCOVERY_TOPIC, ZoneA(1))}
    \cup {Envelope(RoomTopic("zA"), [type |-> "message", payload |-> m]) : m \in MsgsOf("zA")}

NextReconnect ==
    \/ Refresh
    \/ Connect
    \/ Disconnect
    \/ \E e \in ReconnectPool : Deliver(e)
    \/ \E zone \in Selectable : JoinStart(zone, "bob", "")
    \/ TimerFire

\* The mqtt client does not stay disconnected for ever.
SpecReconnect == InitNoLink /\ [][NextReconnect]_vars /\ WF_vars(Connect)

\* The connection dropped while the client was in a zone.
Dropped ==
    /\ lastEvent.op = "disconnect"
    /\ stateRef.currentZone # Null

\* The connect handler has just restored the subscriptions and announced
\* the client on the zone's topic.
Reannounced ==
    /\ lastEvent.op = "connect"
    /\ mqtt.connected
    /\ stateRef.currentZone # Null
    /\ mqtt.subs = {DISCOVERY_TOPIC, DISCOVERY_REQ_TOPIC, RoomTopic(stateRef.currentZone.id)}
    /\ \E i, j \in 1..Len(outbox) :
          /\ outbox[i] = HistoryReq(stateRef.currentZone.id)
          /\ outbox[j] = Presence(stateRef.currentZone.id)

\* C22: reconnection.  After the connection of a client in a zone has
\* dropped, the client reconnects and its connect handler subscribes again
\* to the discovery topics and to the zone's topic and publishes a
\* history_req and a presence on the zone's topic.
C22_ReconnectReannounces == Dropped ~> Reannounced

\* The client reconnected in a zone in which it had already received a
\* message over the earlier connection.
C22_Witness ==
    /\ Reannounced
    /\ stateRef.messages # <<>>

----------------------------------------------------------------------------
(* Sending: a member of zone zA sends chat messages while its connection     *)
(* comes and goes.                                                           *)

NextSend ==
    \/ Refresh
    \/ Connect
    \/ Disconnect
    \/ \E e \in ReconnectPool : Deliver(e)
    \/ \E zone \in Selectable : JoinStart(zone, "bob", "")
    \/ TimerFire
    \/ SendMessage

SpecSend == InitNoLink /\ [][NextSend]_vars

\* C23: a send is acknowledged or reported.  A sendMessage whose message was
\* not handed to the broker, because the transport was offline, is reported
\* to the caller as failed: its promise rejects or an alert is shown.
C23_SendAckedOrReported ==
    (lastEvent.op = "sendMessage" /\ ~lastEvent.handed) =>
        (lastEvent.outcome = "rejected" \/ alert # "")

----------------------------------------------------------------------------
(* Malformed and unrecognized envelopes: besides well-formed descriptors and *)
(* messages, the broker relays a payload of an unknown kind on the discovery *)
(* topic and on the zone's topic.                                            *)

\* A payload of another application: it has an id and a kind, and none of the
\* other fields of a Zone or of a room event.
Beacon == [type |-> "beacon", id |-> "zX", sender |-> "p1"]

KnownKinds ==
    {"message", "typing", "presence", "count_sync", "history_req", "history_res"}

\* The envelope carries no zone descriptor on the discovery topic, or a kind
\* that handleRoomEvent does not know on a zone's topic.
Malformed(e) ==
    \/ e.topic = DISCOVERY_TOPIC /\ ~IsZone(e.data)
    \/ e.topic \notin {DISCOVERY_TOPIC, DISCOVERY_REQ_TOPIC} /\ e.data.type \notin KnownKinds

MalformedPool ==
    {Envelope(DISCOVERY_TOPIC, ZoneA(1)),
     Envelope(DISCOVERY_TOPIC, Beacon),
     Envelope(RoomTopic("zA"), Beacon),
     Envelope(RoomTopic("zA"), [type |-> "message", payload |-> LateMsg("zA")])}

NextMalformed ==
    \/ Refresh
    \/ Connect
    \/ \E pos \in Positions : UpdateLocation(pos)
    \/ \E e \in MalformedPool : Deliver(e)
    \/ JoinStart(ZoneA(1), "bob", "")
    \/ TimerFire

SpecMalformed == InitNoLink /\ [][NextMalformed]_vars

\* C24: malformed envelopes are discarded.  The delivery of a payload that is
\* no zone descriptor on the discovery topic, or of an unknown kind on the
\* zone's topic, raises no error and leaves the zone, the messages, the
\* typing users and the discovered zones as they were.
C24_MalformedDiscarded ==
    [][(lastEvent'.op = "deliver" /\ Malformed(lastEvent'.env)) =>
            /\ ~lastEvent'.threw
            /\ state'.currentZone = state.currentZone
            /\ state'.messages = state.messages
            /\ state'.typingUsers = state.typingUsers
            /\ state'.availableRooms = state.availableRooms]_vars

----------------------------------------------------------------------------
(* Discovery without a position, under SpecDiscovery.                        *)

\* C25: no position, no discovery.  While the client knows no position the
\* list of discovered zones is empty: descriptors that arrive before a
\* position is available are not inserted.
C25_NoPositionNoZones == userLocation = Null => state.availableRooms = <<>>

----------------------------------------------------------------------------
(* Typing: members of zone zA type while this client joins, under one handle *)
(* or another, and leaves.  The clock stands still; SpecDecay lets it run.   *)

Handles == {"bob", "eve"}

TypingPool ==
    {Envelope(DISCOVERY_TOPIC, ZoneA(1))}
    \cup {Envelope(RoomTopic("zA"), [type |-> "typing", sender |-> toUpperCase(h)]) : h \in Handles}

NextTyping ==
    \/ Refresh
    \/ Connect
    \/ \E e \in TypingPool : Deliver(e)
    \/ \E zone \in Selectable, h \in Handles : JoinStart(zone, h, "")
    \/ TimerFire
    \/ ExitClick
    \/ PublishAck

SpecTyping == InitNoLink /\ [][NextTyping]_vars

\* The step hands a typing envelope of the current zone to handleRoomEvent.
GetsTyping ==
    /\ lastEvent'.op = "deliver"
    /\ lastEvent'.env.data.type = "typing"
    /\ stateRef.currentZone # Null
    /\ stateRef.currentUser # Null
    /\ lastEvent'.env.topic = RoomTopic(stateRef.currentZone.id)

\* C26: typing envelopes.  A typing envelope of the current zone from
\* another handle sets typingUsers[handle] to the current time and leaves
\* the other entries alone; one that carries the client's own handle leaves
\* typingUsers unchanged; and the client's own handle is never a key of
\* typingUsers.
C26_TypingExceptSelf ==
    [][/\ GetsTyping =>
            LET handle == lastEvent'.env.data.sender IN
            IF handle = stateRef.currentUser.username
            THEN state'.typingUsers = state.typingUsers
            ELSE /\ DOMAIN state'.typingUsers = DOMAIN state.typingUsers \cup {handle}
                 /\ state'.typingUsers[handle] = now
                 /\ \A u \in DOMAIN state.typingUsers \ {handle} :
                        state'.typingUsers[u] = state.typingUsers[u]
       /\ state'.currentUser # Null =>
            state'.currentUser.username \notin DOMAIN state'.typingUsers]_vars

----------------------------------------------------------------------------
(* Typing decay: the clock runs and the sweep interval ticks while members   *)
(* of zone zA type or fall silent.                                           *)

NextDecay ==
    \/ Tick
    \/ Refresh
    \/ Connect
    \/ \E e \in TypingPool : Deliver(e)
    \/ \E zone \in Selectable : JoinStart(zone, "bob", "")
    \/ TimerFire
    \/ SweepTick

\* Time passes and the interval of the sweep keeps firing.
SpecDecay == InitNoLink /\ [][NextDecay]_vars /\ WF_vars(Tick) /\ WF_vars(SweepTick)

\* The entry of handle u is older than the expiry window at time t.
Stale(typing, u, t) == u \in DOMAIN typing /\ t - typing[u] > TYPING_EXPIRY_MS

\* The entry of handle u was written early enough to outlive the window
\* before the clock of the model stops.
WillGoStale(u) ==
    /\ u \in DOMAIN state.typingUsers
    /\ state.typingUsers[u] + TYPING_EXPIRY_MS < MaxTime

\* C27: typing decay.  Every tick of the sweep removes exactly the entries
\* older than the expiry window, whatever else happens; so an entry whose
\* typist falls silent is eventually removed (it is gone, or a later typing
\* envelope has refreshed it) without any message saying so.
C27_TypingDecays ==
    /\ [][lastEvent'.op = "sweep" =>
            /\ DOMAIN state'.typingUsers =
                    {u \in DOMAIN state.typingUsers : ~Stale(state.typingUsers, u, now)}
            /\ \A u \in DOMAIN state'.typingUsers :
                    state'.typingUsers[u] = state.typingUsers[u]]_vars
    /\ \A h \in Handles : WillGoStale(toUpperCase(h)) ~> ~WillGoStale(toUpperCase(h))

\* The sweep has just removed the entry of EVE, who typed at time 0 and then
\* fell silent, and no envelope arrived in between.
C27_Witness ==
    /\ lastEvent.op = "sweep"
    /\ DOMAIN state.typingUsers = {}
    /\ stateRef.currentZone # Null
    /\ now >= 2
    /\ "EVE" \in DOMAIN stateRef.typingUsers
    /\ stateRef.typingUsers["EVE"] = 0

----------------------------------------------------------------------------
(* The password of a private zone, under SpecCreate.                         *)

\* C28: the plaintext password is not kept.  Once createRoom or joinRoom has
\* completed and the client is in the zone, no client state holds the
\* plaintext password; only its digest is stored, in the zone.
C28_PlaintextNotKept ==
    state.currentZone # Null =>
        /\ roomPassword = ""
        /\ state.currentZone.passwordHash \notin Passwords \ {""}

----------------------------------------------------------------------------
(* Roles: the client creates a zone, leaves it, and joins the zone of a peer *)
(* or its own zone again, whose descriptor the broker relays.                *)

OwnZone ==
    newZone([name |-> "BUNKER", type |-> "public", username |-> "bob", password |-> ""],
            [lat |-> 0, lng |-> 0], 1, 0)

RolePool ==
    {Envelope(DISCOVERY_TOPIC, ZoneA(1)),
     Envelope(DISCOVERY_TOPIC, OwnZone)}

NextRole ==
    \/ Refresh
    \/ Connect
    \/ CreateStart("BUNKER", "public", "bob", "")
    \/ \E pos \in {[lat |-> 0, lng |-> 0]} : CreatePositionOk(pos)
    \/ \E zone \in Selectable : JoinStart(zone, "bob", "")
    \/ \E e \in RolePool : Deliver(e)
    \/ TimerFire
    \/ ExitClick

SpecRole == InitNoLink /\ [][NextRole]_vars

\* C29: the host flag.  Whenever the client is in a zone, whether it created
\* or joined it, isHost is true exactly when the zone's hostId is the
\* client's own fingerprint, in the state and in the committed render.
C29_HostIffOwnZone ==
    /\ state.currentZone # Null =>
            (state.isHost <=> state.currentZone.hostId = FINGERPRINT)
    /\ stateRef.currentZone # Null =>
            (stateRef.isHost <=> stateRef.currentZone.hostId = FINGERPRINT)

\* The client, which created a zone and was its host, has left it and has
\* just entered the zone of peer p1, where it is not host.
C29_Witness ==
    /\ lastEvent.op = "timer"
    /\ lastEvent.timer.kind = "enter"
    /\ created = 1
    /\ state.currentZone # Null
    /\ state.currentZone.hostId = "p1"
    /\ ~state.isHost

----------------------------------------------------------------------------
(* Messages are only added, under SpecMerge.                                 *)

Entries(msgs) == {msgs[i] : i \in 1..Len(msgs)}

\* C30: messages are never removed or altered within a session.  Every step
\* after which the client is still in the zone it was in, be it a message, a
\* history_res or any other step, leaves every entry of messages in place
\* unchanged and adds at most new ones.
C30_MessagesOnlyGrow ==
    [][(/\ state.currentZone # Null
        /\ state'.currentZone # Null
        /\ state'.currentZone.id = state.currentZone.id
        /\ ~(lastEvent'.op = "timer" /\ lastEvent'.timer.kind = "enter")) =>
            /\ Entries(state.messages) \subseteq Entries(state'.messages)
            /\ Len(state'.messages) >= Len(state.messages)]_vars

\* A replayed history with an earlier message was merged in front of the
\* message the client held, which is still there.
C30_Witness ==
    /\ MergedHistory
    /\ Len(lastEvent.before.messages) = 1
    /\ Len(state.messages) = 2
    /\ state.messages[2] = lastEvent.before.messages[1]
    /\ state.messages[1].id \notin Ids(lastEvent.before.messages)

----------------------------------------------------------------------------
(* The discovery list holds one entry per zone, under SpecDiscovery.         *)

\* C31: no two entries of the discovery list have the same zone id, under any
\* sequence of descriptors and sweeps: an accepted descriptor replaces the
\* cached copy of its zone.
C31_OneEntryPerZone ==
    \A i, j \in 1..Len(state.availableRooms) :
        state.availableRooms[i].id = state.availableRooms[j].id => i = j

\* A descriptor with another member count arrived for a zone that was
\* cached, next to a second zone, and took the place of the cached copy.
C31_Witness ==
    /\ GotDescriptor
    /\ Len(lastEvent.before.availableRooms) = 2
    /\ Len(state.availableRooms) = 2
    /\ \E i \in 1..2 :
          /\ lastEvent.before.availableRooms[i].id = lastEvent.env.data.id
          /\ lastEvent.before.availableRooms[i] # lastEvent.env.data
    /\ \E i \in 1..2 : state.availableRooms[i] = lastEvent.env.data

----------------------------------------------------------------------------
(* Access control: private zones of a peer, each with the digest of its key, *)
(* are discovered and joined with the right key or with a longer one, and    *)
(* the client creates private zones of its own.                              *)

Keys == {"k", "kx"}

\* The private zone of peer p1 whose key is p.
PrivateZone(p) ==
    [ZoneB(1) EXCEPT !.id = "zB-" \o p, !.passwordHash = hashPassword(p)]

AccessPool == {Envelope(DISCOVERY_TOPIC, PrivateZone(p)) : p \in Keys}

NextAccess ==
    \/ Refresh
    \/ Connect
    \/ \E e \in AccessPool : Deliver(e)
    \/ \E zone \in Selectable, q \in Keys \cup {p \o "x" : p \in Keys} : JoinStart(zone, "bob", q)
    \/ \E p \in Keys : CreateStart("BUNKER", "private", "bob", p)
    \/ \E pos \in {[lat |-> 0, lng |-> 0]} : CreatePositionOk(pos)
    \/ TimerFire

SpecAccess == InitNoLink /\ [][NextAccess]_vars

\* The last step was joinRoom on the private zone with key p.
TriedKey(p) ==
    /\ lastEvent.op = "joinRoom"
    /\ lastEvent.zone = PrivateZone(p)

\* C32: the access control round trip.  A zone created with password p
\* stores the digest of p; joining a zone that carries the digest of p
\* succeeds with p (enterZone is scheduled, the key is kept) and is denied with
\* p + "x" (alert, nothing scheduled), for every key p.
C32_VerifyRoundTrip ==
    /\ \A p \in Keys :
          /\ (TriedKey(p) /\ lastEvent.password = p) =>
                /\ timers # <<>>
                /\ timers[Len(timers)].kind = "enter"
                /\ timers[Len(timers)].zone = PrivateZone(p)
                /\ loading
                /\ roomPassword = p
          /\ (TriedKey(p) /\ lastEvent.password = p \o "x") =>
                /\ timers = <<>>
                /\ ~loading
                /\ alert = "Access Denied: Invalid Key."
    /\ (state.currentZone # Null /\ state.isHost) =>
            \E p \in Keys : state.currentZone.passwordHash = hashPassword(p) /\ roomPassword = p

\* The same zone, whose key is "k", refused the key "kx" earlier and has now
\* accepted the key "k".
C32_Witness ==
    /\ TriedKey("k")
    /\ lastEvent.password = "k"
    /\ alert = "Access Denied: Invalid Key."
    /\ timers # <<>>

----------------------------------------------------------------------------
\* C33: in every state of a session the messages are in ascending order of
\* timestamp, whatever the interleaving of live messages (appended on
\* arrival) and history_res merges (which sort).
C33_MessagesSorted ==
    state.currentZone # Null => IsSorted(state.messages)

----------------------------------------------------------------------------
\* C34: answering a sync request does not disturb the presence aggregation.
\* The step that handles a sync request leaves the host's set of observed
\* members as it was, so the count of the next pulse does not depend on
\* the requests that arrived in the window.
C34_SyncReqKeepsMembers ==
    GotSyncReq => activeMembers = lastEvent.before.members

----------------------------------------------------------------------------
(* Frame of the current zone: a client is in zone zA while every kind of    *)
(* inbound envelope arrives, among them descriptors that carry the id of zA *)
(* and other values in every other field.                                   *)

Impostor(count) ==
    [id |-> "zA", name |-> "OMEGA", type |-> "private", hostId |-> "p2",
     passwordHash |-> hashPassword("k"), center |-> [lat |-> 0, lng |-> 0],
     createdAt |-> 1, expiresAt |-> 1 + SESSION_DURATION_MS, userCount |-> count]

FramePool ==
    {Envelope(DISCOVERY_TOPIC, z) : z \in {ZoneA(1), Impostor(2)}}
    \cup {Envelope(RoomTopic("zA"), [type |-> "count_sync", count |-> c]) : c \in Counts}
    \cup {Envelope(RoomTopic("zA"), [type |-> "presence", sender |-> "p1"]),
          Envelope(RoomTopic("zA"), [type |-> "message", payload |-> LateMsg("zA")]),
          Envelope(RoomTopic("zA"), [type |-> "history_req", sender |-> "p1"]),
          HistoryRes("zA", FINGERPRINT, <<LateMsg("zA")>>)}

NextFrame ==
    \/ Refresh
    \/ Connect
    \/ \E e \in FramePool : Deliver(e)
    \/ \E zone \in Selectable, q \in {"", "k"} : JoinStart(zone, "bob", q)
    \/ TimerFire

SpecFrame == InitNoLink /\ [][NextFrame]_vars

\* C35: no inbound envelope changes the id, name, type, center, hostId,
\* passwordHash, createdAt or expiresAt of the zone the client is in: across
\* a step that handles an envelope during a session, the current zone is the
\* same record up to its userCount.
C35_EnvelopesKeepZone ==
    [][(lastEvent'.op = "deliver" /\ state.currentZone # Null) =>
        /\ state'.currentZone # Null
        /\ [state'.currentZone EXCEPT !.userCount = state.currentZone.userCount]
              = state.currentZone]_vars

\* In zone ALPHA of host p1, a descriptor with the same id that names
\* another zone raised the count to two and left the rest of the zone alone.
C35_Witness ==
    /\ lastEvent.op = "deliver"
    /\ lastEvent.env.data = Impostor(2)
    /\ state.currentZone # Null
    /\ state.currentZone = ZoneA(2)

----------------------------------------------------------------------------
\* C36: a client never enters a zone that has already expired.  When
\* enterZone has just run, the zone it entered has not expired, so no join
\* notice, history_req or presence is published for an expired zone.
C36_NoEntryAfterExpiry ==
    (lastEvent.op = "timer" /\ lastEvent.timer.kind = "enter") =>
        now < lastEvent.timer.zone.expiresAt

----------------------------------------------------------------------------
(* Exit of a host: the client creates a zone, hosts it while pulses fire and *)
(* sync requests arrive, and exits.                                          *)

NextHostExit ==
    \/ Refresh
    \/ Connect
    \/ CreateStart("BUNKER", "public", "bob", "")
    \/ \E pos \in {[lat |-> 0, lng |-> 0]} : CreatePositionOk(pos)
    \/ TimerFire
    \/ \E s \in {"p1", "p2"} : Deliver(Envelope(DISCOVERY_REQ_TOPIC, [type |-> "sync_req", sender |-> s]))
    \/ \E s \in {"p1", "p2"} : Deliver(Envelope(RoomTopic(NewZoneId(1)), [type |-> "presence", sender |-> s]))
    \/ HostPulse
    \/ ExitClick
    \/ PublishAck

SpecHostExit == InitNoLink /\ [][NextHostExit]_vars

\* The envelope advertises a zone: a descriptor or a count_sync.
Advertises(e) ==
    \/ e.topic = DISCOVERY_TOPIC
    \/ (e.topic \notin {DISCOVERY_TOPIC, DISCOVERY_REQ_TOPIC} /\ e.data.type = "count_sync")

\* C37: after a host has exited its zone it publishes no further descriptor
\* or count_sync for it, neither from the host pulse nor in reply to a sync
\* request: in a state without a current zone, the step just taken
\* published neither.
C37_NoBroadcastAfterExit ==
    state.currentZone = Null => \A i \in 1..Len(outbox) : ~Advertises(outbox[i])

----------------------------------------------------------------------------
\* What a member of the zone makes of the payload of a room envelope, as far
\* as its messages go: a live message is appended, a history_res addressed
\* to the member is merged, anything else leaves the messages alone.
ApplyToMessages(st, data) ==
    IF data.type = "message" THEN AppendMessage(st, data.payload)
    ELSE IF data.type = "history_res" /\ isAddressee(data) THEN MergeHistory(st, data.payload)
    ELSE st

\* The envelopes that bring one message of the zone to the member, live or
\* as a history of one message.
SingleMessagePool(zoneId) ==
    {Envelope(RoomTopic(zoneId), [type |-> "message", payload |-> m]) : m \in MsgsOf(zoneId)}
    \cup {HistoryRes(zoneId, FINGERPRINT, <<m>>) : m \in MsgsOf(zoneId)}

\* C38: set-level convergence.  Delivery of a room envelope to a member
\* commutes, as far as the set of message ids goes, with the delivery of any
\* message of the zone, live or replayed, and delivering the envelope once more changes
\* nothing; so members that start with no messages and are delivered the same
\* envelopes, in any order and with any duplication, hold the same ids.
C38_SetLevelConvergence ==
    [][(/\ lastEvent'.op = "deliver"
        /\ stateRef.currentZone # Null
        /\ lastEvent'.env.topic = RoomTopic(stateRef.currentZone.id)) =>
        LET d == lastEvent'.env.data IN
        /\ state'.messages = ApplyToMessages(state, d).messages
        /\ Ids(ApplyToMessages(state', d).messages) = Ids(state'.messages)
        /\ \A e \in SingleMessagePool(stateRef.currentZone.id) :
                Ids(ApplyToMessages(state', e.data).messages)
                  = Ids(ApplyToMessages(ApplyToMessages(state, e.data), d).messages)]_vars

\* The member holds the later message before the earlier one, which arrived
\* last; a member that got them the other way round holds the same two ids.
C38_Witness ==
    /\ lastEvent.op = "deliver"
    /\ lastEvent.env.data.type = "message"
    /\ lastEvent.env.data.payload.timestamp = 1
    /\ Len(state.messages) = 2
    /\ state.messages[1].timestamp = 2
    /\ state.messages[2] = lastEvent.env.data.payload

====
